---- MODULE Spec2Model ----
(***************************************************************************)
(* Model of bulletforcehax2_lib/src/hax/hax_impl.rs: the websocket hook of *)
(* HaxState (websocket_hook, match_packet_lobby, match_packet_game) and    *)
(* the lobby room rules (strip_password, force_games_web,                  *)
(* force_games_current_ver).                                               *)
(*                                                                         *)
(* Two connections (the lobby server's and the game server's) share one    *)
(* HaxState behind one mutex; each runs websocket_hook once per frame.     *)
(* Strings are sequences of one-character strings, Option<T> is a sequence *)
(* of length 0 (None) or 1 (Some), a PhotonDataType is a tagged record.     *)
(***************************************************************************)
EXTENDS Integers, Sequences, FiniteSets, TLC

\* ------------------------------------------------------------------ bounds
\* Longest room listing (entries of RoomInfoList.games) a frame carries.
MaxRooms == 2
\* Longest actor-properties list a join-game response carries.
MaxActors == 2
\* Times in a row the rules of the loop body are applied to one room.
MaxPasses == 2

\* ----------------------------------------------------------------- options
None == <<>>
Some(x) == <<x>>
IsSome(o) == Len(o) = 1
Unwrap(o) == o[1]

\* ----------------------------------------------------------------- strings
StartsWith(s, prefix) ==
    /\ Len(s) >= Len(prefix)
    /\ SubSeq(s, 1, Len(prefix)) = prefix

\* Index of the first occurrence of character c in s at or after i, 0 if none.
RECURSIVE FindChar(_, _, _)
FindChar(s, c, i) ==
    IF i > Len(s) THEN 0
    ELSE IF s[i] = c THEN i
    ELSE FindChar(s, c, i + 1)

\* The version as it is, '_' and what follows it included.
WholeVersion(version) == version

\* str::split_once('_') followed by the match of lines 174-177: the part
\* before the first '_' , or the whole string when there is none.
VersionBeforeUnderscore(version) ==
    LET i == FindChar(version, "_", 1)
    IN  IF i = 0 THEN version ELSE SubSeq(version, 1, i - 1)

NEWFPS == <<"n", "e", "w", "f", "p", "s", "-">>
BALYZE_WEB == <<"B", "A", "L", "Y", "Z", "E", "_", "W", "E", "B">>
BALYZE_MOBILE ==
    <<"B", "A", "L", "Y", "Z", "E", "_", "M", "O", "B", "I", "L", "E">>
PrefixM == <<"[", "M", "]", " ">>
PrefixP == <<"[", "p", "]", " ">>
Bracket(v) == <<"[">> \o v \o <<"]", " ">>

\* ---------------------------------------------------------- PhotonDataType
\* The variants used here: String(s), Integer(n), Hashtable(h); the fields of
\* the other variants are left at a default.
NoHash == [none |-> TRUE]
PString(s) == [t |-> "String", s |-> s, n |-> 0, h |-> NoHash]
PInteger(n) == [t |-> "Integer", s |-> <<>>, n |-> n, h |-> NoHash]
PHashtable(h) == [t |-> "Hashtable", s |-> <<>>, n |-> 0, h |-> h]
IsString(d) == d.t = "String"

\* custom_properties.get(key)
Get(cp, key) == IF key \in DOMAIN cp THEN Some(cp[key]) ELSE None
HasString(cp, key) == key \in DOMAIN cp /\ IsString(cp[key])

\* ------------------------------------------------------------- room rules
\* strip_password that marks the name and leaves the password in place.
strip_password_keep(cp) ==
    IF HasString(cp, "password") /\ cp["password"].s # <<>>
       /\ HasString(cp, "roomName")
    THEN [cp EXCEPT !["roomName"] = PString(PrefixP \o @.s)]
    ELSE cp

\* fn strip_password(room_info)
strip_password(cp) ==
    LET has_password ==
            IF HasString(cp, "password")
            THEN cp["password"].s # <<>>
            ELSE FALSE
        named ==
            IF HasString(cp, "roomName")
            THEN [cp EXCEPT !["roomName"] = PString(PrefixP \o @.s)]
            ELSE cp
    IN  IF has_password
        THEN [named EXCEPT !["password"] = PString(<<>>)]
        ELSE cp

\* force_games_web that rewrites the tag and leaves the name alone.
force_games_web_tag_only(cp) ==
    IF HasString(cp, "storeID")
    THEN [cp EXCEPT !["storeID"] = PString(BALYZE_WEB)]
    ELSE cp

\* fn force_games_web(room_info)
force_games_web(cp) ==
    LET store_id == Get(cp, "storeID")
        named ==
            IF HasString(cp, "roomName")
               /\ IsSome(store_id) /\ IsString(Unwrap(store_id))
            THEN LET sid == Unwrap(store_id).s
                     name == cp["roomName"].s
                 IN  [cp EXCEPT !["roomName"] =
                        PString(IF sid = BALYZE_WEB THEN name
                                ELSE IF sid = BALYZE_MOBILE
                                     THEN PrefixM \o name
                                     ELSE Bracket(sid) \o name)]
            ELSE cp
    IN  IF HasString(named, "storeID")
        THEN [named EXCEPT !["storeID"] = PString(BALYZE_WEB)]
        ELSE named

\* force_games_current_ver without the comparison of line 403.
force_games_current_ver_always(cp, target_version) ==
    IF ~HasString(cp, "gameVersion") THEN cp
    ELSE LET named ==
                IF HasString(cp, "roomName")
                THEN [cp EXCEPT !["roomName"] =
                        PString(Bracket(cp["gameVersion"].s) \o @.s)]
                ELSE cp
         IN  [named EXCEPT !["gameVersion"] = PString(target_version)]

\* fn force_games_current_ver(room_info, target_version)
force_games_current_ver(cp, target_version) ==
    IF ~HasString(cp, "gameVersion") THEN cp
    ELSE LET actual_version == cp["gameVersion"].s
             named ==
                IF HasString(cp, "roomName")
                THEN [cp EXCEPT !["roomName"] =
                        PString(Bracket(actual_version) \o @.s)]
                ELSE cp
         IN  IF actual_version # target_version
             THEN [named EXCEPT !["gameVersion"] = PString(target_version)]
             ELSE cp

\* The exemption test reading the key `gameVersion` (upper-case V), the key
\* the BulletForce rooms carry, in place of `gameversion`.
IsExemptUpperKey(cp) ==
    /\ HasString(cp, "gameVersion")
    /\ StartsWith(cp["gameVersion"].s, NEWFPS)

\* The exemption test of lines 157-163: custom property "gameversion"
\* (lower case) is a string starting with "newfps-".
IsExempt(cp) ==
    /\ HasString(cp, "gameversion")
    /\ StartsWith(cp["gameversion"].s, NEWFPS)


\* ------------------------------------------------------------------ codec
\* The typed accessors of photon_lib (RoomInfoList, RoomInfo, Player, ...)
\* are called here and defined elsewhere.  A parameter map or hashtable is a
\* record whose field wf says whether the accessor's from_map accepts it.

\* RoomInfo::from_map(props): the RoomInfo of a room's hashtable.
RoomInfo_from_map(props) ==
    IF props.wf THEN Some([custom_properties |-> props.cp]) ELSE None

\* room_info.into_map(props): writes the RoomInfo back into the hashtable.
RoomInfo_into_map(room_info, props) ==
    [props EXCEPT !.cp = room_info.custom_properties]

\* Player::from_map(actor_props)
Player_from_map(actor_props) ==
    IF actor_props.wf THEN Some([nickname |-> actor_props.nickname]) ELSE None

\* PhotonMessage::from_websocket_bytes(data): None stands for Err.
from_websocket_bytes(bytes) ==
    IF bytes.payload.kind = "Malformed" THEN None ELSE Some(bytes.payload)

\* The bytes new_message.to_websocket_bytes(buf) writes when it succeeds:
\* the codec's own encoding of the message.
to_websocket_bytes(message) == [canonical |-> TRUE, payload |-> message]

\* ------------------------------------------------------ lobby room pass
\* One iteration of the loop of lines 148-191 on one entry (k, v) of
\* game_list.games, under the flags snapshot.  Yields the entry as the loop
\* leaves it, whether changes_made was set, and whether RoomInfo::from_map
\* failed (the `?` of line 154).
RoomRules(cp, flags) ==
    LET c1 == IF flags.show_mobile THEN force_games_web(cp) ELSE cp
        c2 == IF flags.show_all_versions /\ IsSome(flags.game_version)
              THEN force_games_current_ver(
                       c1, VersionBeforeUnderscore(Unwrap(flags.game_version)))
              ELSE c1
        c3 == IF flags.strip_passwords THEN strip_password(c2) ELSE c2
    IN  c3

\* Whether the iteration sets changes_made (lines 169, 179, 186).
RoomSetsChanged(flags) ==
    \/ flags.show_mobile
    \/ flags.show_all_versions /\ IsSome(flags.game_version)
    \/ flags.strip_passwords

\* The warning logged when the version is known.
RoomWarnsWhenKnown(flags) ==
    flags.show_all_versions /\ IsSome(flags.game_version)

\* Whether the iteration emits the warning of line 181.
RoomWarns(flags) ==
    flags.show_all_versions /\ ~IsSome(flags.game_version)

RoomPass(entry, flags) ==
    IF entry.key.t = "String" /\ entry.value.t = "Hashtable"
    THEN LET props == entry.value.h
             ri == RoomInfo_from_map(props)
         IN  IF ~IsSome(ri)
             THEN [err |-> TRUE, entry |-> entry, changed |-> FALSE,
                   warned |-> FALSE]
             ELSE IF IsExempt(Unwrap(ri).custom_properties)
             THEN [err |-> FALSE, entry |-> entry, changed |-> FALSE,
                   warned |-> FALSE]
             ELSE LET room_info ==
                        [custom_properties |->
                            RoomRules(Unwrap(ri).custom_properties, flags)]
                  IN  [err |-> FALSE,
                       entry |-> [entry EXCEPT !.value =
                           PHashtable(RoomInfo_into_map(room_info, props))],
                       changed |-> RoomSetsChanged(flags),
                       warned |-> RoomWarns(flags)]
    ELSE [err |-> FALSE, entry |-> entry, changed |-> FALSE,
          warned |-> FALSE]


\* ------------------------------------------------------------ the state
\* hax    the shared HaxState (hax/mod.rs fields read and written here)
\* lock   the holder of the futures Mutex around HaxState, or "free"
\* hook   per connection, the websocket_hook invocation in progress: its
\*        position pc, its arguments (frame: the bytes as received, data: the
\*        buffer, direction), its locals, its action and its return value;
\*        entry (kept for the game connection, the one whose hook writes
\*        them) is player_id and players as they stood when it was called;
\*        warnings counts the records of line 181, locks the times the
\*        invocation has taken the lock
\* rule   one pass of the body of the loop of lines 148-191 over one room,
\*        taken on its own: the stage reached, room_info.custom_properties as
\*        the pass received them (input), as they stood before the last rule
\*        that ran (before) and as they stand (cp), the flags snapshot, and
\*        what the pass has set and logged
VARIABLES hax, lock, hook, rule
vars == <<hax, lock, hook, rule>>

\* WebSocketServer: one connection, and one task calling the hook, per server
Conn == {"LobbyServer", "GameServer"}
Direction == {"ClientToServer", "ServerToClient"}

Idle ==
    [pc |-> "idle", frame |-> None, data |-> None, direction |-> None,
     msg |-> None, flags |-> None, games |-> <<>>, idx |-> 0,
     changes_made |-> FALSE, warnings |-> 0, resp |-> None,
     player |-> None, action |-> None, result |-> "none", entry |-> None,
     locks |-> 0]

Action(kind, message) == Some([kind |-> kind, msg |-> message])
DoNothing == Action("DoNothing", None)
Drop == Action("Drop", None)
Change(message) == Action("Change", Some(message))

\* `return Err(..)` / a failing `?`: the invocation ends, the buffer is left
\* as it is
Fail(h) == [h EXCEPT !.pc = "done", !.result = "Err"]
\* match_packet_* returned Ok(action): on to the match of line 95
Yield(h, action) == [h EXCEPT !.pc = "apply", !.action = action]

Msg(p) == Unwrap(hook[p].msg)
At(p, pc) == hook[p].pc = pc
IsMsg(p, kind, codes) ==
    /\ At(p, "match")
    /\ Msg(p).kind = kind
    /\ Msg(p).code \in codes

\* ------------------------------------------------------- websocket_hook
EntryState(p) ==
    IF p = "GameServer"
    THEN Some([player_id |-> hax.player_id, players |-> hax.players])
    ELSE None

\* Lines 54-88: the call, from_websocket_bytes and the two log records.
HookEntry(p, bytes, direction) ==
    /\ At(p, "idle")
    /\ LET h == [Idle EXCEPT !.frame = Some(bytes), !.data = Some(bytes),
                             !.direction = Some(direction),
                             !.entry = EntryState(p)]
           m == from_websocket_bytes(bytes)
       IN  hook' = [hook EXCEPT ![p] =
                IF IsSome(m)
                THEN [h EXCEPT !.pc = "match", !.msg = m]
                ELSE Fail(h)]
    /\ UNCHANGED <<hax, lock>>
    /\ UNCHANGED rule

\* Lines 95-105: what the hook does with the action, given whether
\* to_websocket_bytes succeeds.
ApplyAction(h, encode_ok) ==
    LET a == Unwrap(h.action)
    IN  IF a.kind = "Change"
        THEN IF encode_ok
             THEN [h EXCEPT !.pc = "done", !.result = "Ok_true",
                            !.data = Some(to_websocket_bytes(Unwrap(a.msg)))]
             ELSE Fail(h)
        ELSE IF a.kind = "Drop"
        THEN [h EXCEPT !.pc = "done", !.result = "Ok_false"]
        ELSE [h EXCEPT !.pc = "done", !.result = "Ok_true"]

HookApply(p) ==
    /\ At(p, "apply")
    /\ \E encode_ok \in BOOLEAN :
          hook' = [hook EXCEPT ![p] = ApplyAction(hook[p], encode_ok)]
    /\ UNCHANGED <<hax, lock>>
    /\ UNCHANGED rule

\* The hook has returned; the connection's task takes its next frame.
HookReturn(p) ==
    /\ At(p, "done")
    /\ hook' = [hook EXCEPT ![p] = Idle]
    /\ UNCHANGED <<hax, lock>>
    /\ UNCHANGED rule

\* --------------------------------------------------- match_packet_lobby
\* Line 116: block_on(hax.lock()) of the AUTHENTICATE branch.
LobbyAuthLock(p) ==
    /\ p = "LobbyServer"
    /\ IsMsg(p, "OperationRequest", {"AUTHENTICATE"})
    /\ lock = "free"
    /\ lock' = p
    /\ hook' = [hook EXCEPT ![p].pc = "l_auth", ![p].locks = @ + 1]
    /\ UNCHANGED hax
    /\ UNCHANGED rule

\* The writes of lines 118-129 followed by a reset of the actor number: a
\* new authentication starts a new session.
AuthWriteReset(state, parameters) ==
    LET s1 == IF IsSome(parameters.app_version)
                 /\ IsString(Unwrap(parameters.app_version))
              THEN [state EXCEPT !.game_version =
                        Some(Unwrap(parameters.app_version).s)]
              ELSE state
        s2 == IF IsSome(parameters.user_id)
                 /\ IsString(Unwrap(parameters.user_id))
              THEN [s1 EXCEPT !.user_id = Some(Unwrap(parameters.user_id).s)]
              ELSE s1
    IN  [s2 EXCEPT !.player_id = None]

\* The writes of lines 118-129 to the locked state.
AuthWrite(state, parameters) ==
    LET s1 == IF IsSome(parameters.app_version)
                 /\ IsString(Unwrap(parameters.app_version))
              THEN [state EXCEPT !.game_version =
                        Some(Unwrap(parameters.app_version).s)]
              ELSE state
    IN  IF IsSome(parameters.user_id) /\ IsString(Unwrap(parameters.user_id))
        THEN [s1 EXCEPT !.user_id = Some(Unwrap(parameters.user_id).s)]
        ELSE s1

\* Lines 118-130: the two writes, then the guard goes out of scope.
LobbyAuthWrite(p) ==
    /\ At(p, "l_auth")
    /\ lock = p
    /\ hax' = AuthWrite(hax, Msg(p).params)
    /\ lock' = "free"
    /\ hook' = [hook EXCEPT ![p] = Yield(@, DoNothing)]
    /\ UNCHANGED rule

\* Line 137: block_on(hax.lock()) of the GAME_LIST branch.
LobbySnapLock(p) ==
    /\ p = "LobbyServer"
    /\ IsMsg(p, "EventData", {"GAME_LIST", "GAME_LIST_UPDATE"})
    /\ lock = "free"
    /\ lock' = p
    /\ hook' = [hook EXCEPT ![p].pc = "l_snap", ![p].locks = @ + 1]
    /\ UNCHANGED hax
    /\ UNCHANGED rule

\* The tuple of lines 138-143.
Snapshot(state) ==
    [strip_passwords |-> state.strip_passwords,
     show_mobile |-> state.show_mobile_games,
     show_all_versions |-> state.show_other_versions,
     game_version |-> state.game_version]

\* Lines 136-144: the snapshot is read and the guard dropped.
LobbySnapshot(p) ==
    /\ At(p, "l_snap")
    /\ lock = p
    /\ lock' = "free"
    /\ hook' = [hook EXCEPT ![p].pc = "l_list",
                            ![p].flags = Some(Snapshot(hax))]
    /\ UNCHANGED hax
    /\ UNCHANGED rule

\* Lines 145-146: RoomInfoList::from_map(&mut event.parameters)?
LobbyListFromMap(p) ==
    /\ At(p, "l_list")
    /\ hook' = [hook EXCEPT ![p] =
            IF Msg(p).params.wf
            THEN [@ EXCEPT !.pc = "l_room", !.games = Msg(p).params.games,
                           !.idx = 1, !.changes_made = FALSE]
            ELSE Fail(@)]
    /\ UNCHANGED <<hax, lock>>
    /\ UNCHANGED rule

\* Lines 148-191: one iteration of the loop over game_list.games.
LobbyRoom(p) ==
    /\ At(p, "l_room")
    /\ hook[p].idx <= Len(hook[p].games)
    /\ LET h == hook[p]
           r == RoomPass(h.games[h.idx], Unwrap(h.flags))
       IN  hook' = [hook EXCEPT ![p] =
                IF r.err THEN Fail(h)
                ELSE [h EXCEPT !.games[h.idx] = r.entry,
                               !.idx = h.idx + 1,
                               !.changes_made = h.changes_made \/ r.changed,
                               !.warnings =
                                    h.warnings + IF r.warned THEN 1 ELSE 0]]
    /\ UNCHANGED <<hax, lock>>
    /\ UNCHANGED rule

\* The return of line 196 without the test of changes_made.
LobbyResultUnguarded(message, games, changes_made) ==
    Change([message EXCEPT !.params.games = games])

\* Lines 193-198 and 204: what match_packet_lobby returns after the loop.
LobbyResult(message, games, changes_made) ==
    IF changes_made
    THEN Change([message EXCEPT !.params.games = games])
    ELSE DoNothing

LobbyFinish(p) ==
    /\ At(p, "l_room")
    /\ hook[p].idx > Len(hook[p].games)
    /\ hook' = [hook EXCEPT ![p] =
            Yield(@, LobbyResult(Msg(p), @.games, @.changes_made))]
    /\ UNCHANGED <<hax, lock>>
    /\ UNCHANGED rule

\* Lines 131, 199, 201: every other lobby message.
LobbyOther(p) ==
    /\ p = "LobbyServer"
    /\ At(p, "match")
    /\ ~IsMsg(p, "OperationRequest", {"AUTHENTICATE"})
    /\ ~IsMsg(p, "EventData", {"GAME_LIST", "GAME_LIST_UPDATE"})
    /\ hook' = [hook EXCEPT ![p] = Yield(@, DoNothing)]
    /\ UNCHANGED <<hax, lock>>
    /\ UNCHANGED rule


\* ---------------------------------------------------- match_packet_game
\* Whether a branch of lines 211-347 that takes no lock ends in Err: a
\* failing from_map `?`, the ok_or_else of lines 226 and 310, the bail! of
\* line 230, extract_rpc_call of line 323.
ObserveFails(message) ==
    LET q == message.params
    IN  CASE message.kind = "OperationRequest" /\ message.code = "JOIN_GAME" ->
                ~q.wf
          [] message.kind = "OperationRequest" /\ message.code = "RAISE_EVENT" ->
                \/ ~q.wf
                \/ /\ q.event_code = "RPC"
                   /\ \/ ~IsSome(q.data)
                      \/ Unwrap(q.data).t # "Hashtable"
                      \/ ~Unwrap(q.data).h.wf
          [] message.kind = "EventData" /\ message.code = "JOIN" ->
                /\ IsSome(q.player_properties)
                /\ Unwrap(q.player_properties).t = "Hashtable"
                /\ ~IsSome(Player_from_map(Unwrap(q.player_properties).h))
          [] message.kind = "EventData" /\ message.code = "INSTANTIATION" ->
                ~q.wf \/ ~q.data_wf
          [] message.kind = "EventData"
             /\ message.code \in {"SEND_SERIALIZE", "SEND_SERIALIZE_RELIABLE"} ->
                ~q.wf \/ ~q.serialized
          [] message.kind = "EventData" /\ message.code = "RPC" ->
                ~q.wf \/ ~q.rpc_wf
          [] OTHER -> FALSE

\* A branch that hands the decoded message back as a replacement.
ObserveResultChange(message) ==
    IF ObserveFails(message) THEN None ELSE Change(message)

\* What match_packet_game returns on a branch that takes no lock: None for
\* Err, else the action of line 349.
ObserveResult(message) ==
    IF ObserveFails(message) THEN None ELSE DoNothing

\* The guard without the test of the return code.
IsJoinResponse(message) ==
    /\ message.kind = "OperationResponse"
    /\ message.code = "JOIN_GAME"

\* The guard of line 262.
IsJoinSuccess(message) ==
    /\ message.kind = "OperationResponse"
    /\ message.code = "JOIN_GAME"
    /\ message.return_code = 0

\* Lines 212-259, 285-347: every branch but the join-game response.
GameObserve(p) ==
    /\ p = "GameServer"
    /\ At(p, "match")
    /\ ~IsJoinSuccess(Msg(p))
    /\ hook' = [hook EXCEPT ![p] =
            IF IsSome(ObserveResult(Msg(p)))
            THEN Yield(@, ObserveResult(Msg(p)))
            ELSE Fail(@)]
    /\ UNCHANGED <<hax, lock>>
    /\ UNCHANGED rule

\* Lines 263-265: JoinGameResponseSuccess::from_map(props)? and its log.
GameJoinFromMap(p) ==
    /\ p = "GameServer"
    /\ At(p, "match")
    /\ IsJoinSuccess(Msg(p))
    /\ hook' = [hook EXCEPT ![p] =
            IF Msg(p).params.wf
            THEN [@ EXCEPT !.pc = "g_lock",
                           !.resp = Some([actor_nr |-> Msg(p).params.actor_nr,
                                          player_properties |->
                                             Msg(p).params.player_properties])]
            ELSE Fail(@)]
    /\ UNCHANGED <<hax, lock>>
    /\ UNCHANGED rule

\* Line 266: block_on(hax.lock()).
GameJoinLock(p) ==
    /\ At(p, "g_lock")
    /\ lock = "free"
    /\ lock' = p
    /\ hook' = [hook EXCEPT ![p].pc = "g_set_id", ![p].locks = @ + 1]
    /\ UNCHANGED hax
    /\ UNCHANGED rule

\* The write of line 268 together with a reset of the players of the game
\* left behind.
GameSetPlayerIdFresh(p) ==
    /\ At(p, "g_set_id")
    /\ lock = p
    /\ hax' = [hax EXCEPT !.player_id = Some(Unwrap(hook[p].resp).actor_nr),
                          !.players = <<>>]
    /\ hook' = [hook EXCEPT ![p].pc = "g_actor", ![p].idx = 1]
    /\ UNCHANGED lock
    /\ UNCHANGED rule

\* Line 268: hax.player_id = Some(resp.actor_nr).
GameSetPlayerId(p) ==
    /\ At(p, "g_set_id")
    /\ lock = p
    /\ hax' = [hax EXCEPT !.player_id = Some(Unwrap(hook[p].resp).actor_nr)]
    /\ hook' = [hook EXCEPT ![p].pc = "g_actor", ![p].idx = 1]
    /\ UNCHANGED lock
    /\ UNCHANGED rule

Actors(p) == Unwrap(hook[p].resp).player_properties

\* Whether the loop body goes past the two `continue`s of lines 271-278.
IsActorEntry(pair) ==
    pair.key.t = "Integer" /\ pair.value.t = "Hashtable"

\* Lines 270-278: the next pair of resp.player_properties.
GameActorNext(p) ==
    /\ At(p, "g_actor")
    /\ lock = p
    /\ hook[p].idx <= Len(Actors(p))
    /\ hook' = [hook EXCEPT ![p] =
            IF IsActorEntry(Actors(p)[@.idx])
            THEN [@ EXCEPT !.pc = "g_from_map"]
            ELSE [@ EXCEPT !.idx = @ + 1]]
    /\ UNCHANGED <<hax, lock>>
    /\ UNCHANGED rule

\* Line 279 with a guard that outlives the early return.
GamePlayerFromMapKeepsLock(p) ==
    /\ At(p, "g_from_map")
    /\ lock = p
    /\ LET player == Player_from_map(Actors(p)[hook[p].idx].value.h)
       IN  hook' = [hook EXCEPT ![p] =
                IF IsSome(player)
                THEN [@ EXCEPT !.pc = "g_log", !.player = player]
                ELSE Fail(@)]
    /\ UNCHANGED <<hax, lock, rule>>

\* Line 279: Player::from_map(&mut actor_props.clone())?  On Err the function
\* returns and the guard is dropped.
GamePlayerFromMap(p) ==
    /\ At(p, "g_from_map")
    /\ lock = p
    /\ LET player == Player_from_map(Actors(p)[hook[p].idx].value.h)
       IN  IF IsSome(player)
           THEN /\ hook' = [hook EXCEPT ![p].pc = "g_log",
                                        ![p].player = player]
                /\ UNCHANGED lock
           ELSE /\ hook' = [hook EXCEPT ![p] = Fail(@)]
                /\ lock' = "free"
    /\ UNCHANGED hax
    /\ UNCHANGED rule

\* Line 281: debug!(actor_id, "Found new actor").
GameLogActor(p) ==
    /\ At(p, "g_log")
    /\ lock = p
    /\ hook' = [hook EXCEPT ![p].pc = "g_insert"]
    /\ UNCHANGED <<hax, lock>>
    /\ UNCHANGED rule

\* An insert that replaces the map by the one entry.
InsertAlone(map, key, value) ==
    [k \in {key} |-> value]

\* HashMap::insert
Insert(map, key, value) ==
    [k \in DOMAIN map \cup {key} |-> IF k = key THEN value ELSE map[k]]

\* Line 282: hax.players.insert(actor_id, actor_info).
GameInsert(p) ==
    /\ At(p, "g_insert")
    /\ lock = p
    /\ hax' = [hax EXCEPT !.players =
            Insert(@, Actors(p)[hook[p].idx].key.n, Unwrap(hook[p].player))]
    /\ hook' = [hook EXCEPT ![p].pc = "g_actor", ![p].idx = @ + 1,
                            ![p].player = None]
    /\ UNCHANGED lock
    /\ UNCHANGED rule

\* Line 284: the loop is over, the guard goes out of scope; line 349.
GameJoinDone(p) ==
    /\ At(p, "g_actor")
    /\ lock = p
    /\ hook[p].idx > Len(Actors(p))
    /\ lock' = "free"
    /\ hook' = [hook EXCEPT ![p] = Yield(@, DoNothing)]
    /\ UNCHANGED hax
    /\ UNCHANGED rule


\* ------------------------------------------- the rule pass on its own
\* The body of the loop of lines 148-191 for one (String, Hashtable) entry
\* whose RoomInfo::from_map succeeded, one step per block.
NoRule ==
    [stage |-> "none", pass |-> 0, input |-> <<>>, before |-> <<>>,
     cp |-> <<>>, last |-> "none", flags |-> None, changes_made |-> FALSE,
     warned |-> FALSE]

\* The pass as it starts on room_info.custom_properties = cp.
StartRule(cp, flags, pass) ==
    [stage |-> "exempt", pass |-> pass, input |-> cp, before |-> cp,
     cp |-> cp, last |-> "none", flags |-> flags, changes_made |-> FALSE,
     warned |-> FALSE]

\* The blocks with strip_password ahead of the other two.
NextStagePasswordFirst(stage) ==
    CASE stage = "exempt" -> "password"
      [] stage = "password" -> "mobile"
      [] stage = "mobile" -> "version"
      [] stage = "version" -> "into_map"

\* The order of the blocks of lines 157-189: the block that follows each.
NextStage(stage) ==
    CASE stage = "exempt" -> "mobile"
      [] stage = "mobile" -> "version"
      [] stage = "version" -> "password"
      [] stage = "password" -> "into_map"

\* Lines 156-163: the exemption test and its `continue`.
RuleExempt ==
    /\ rule.stage = "exempt"
    /\ rule' = [rule EXCEPT !.stage = IF IsExempt(rule.cp) THEN "skipped"
                                      ELSE NextStage("exempt")]
    /\ UNCHANGED <<hax, lock, hook>>

\* Lines 167-170: if show_mobile { force_games_web; changes_made = true }.
RuleMobile ==
    /\ rule.stage = "mobile"
    /\ rule' = [rule EXCEPT
            !.stage = NextStage("mobile"),
            !.last = "mobile",
            !.before = rule.cp,
            !.cp = IF rule.flags.show_mobile THEN force_games_web(@) ELSE @,
            !.changes_made = @ \/ rule.flags.show_mobile]
    /\ UNCHANGED <<hax, lock, hook>>

\* Lines 171-183: if show_all_versions, force_games_current_ver to the part
\* of game_version before '_' when it is known, the warning otherwise.
RuleVersion ==
    /\ rule.stage = "version"
    /\ LET known == rule.flags.show_all_versions
                    /\ IsSome(rule.flags.game_version)
       IN  rule' = [rule EXCEPT
               !.stage = NextStage("version"),
               !.last = "version",
               !.before = rule.cp,
               !.cp = IF known
                      THEN force_games_current_ver(
                               @, VersionBeforeUnderscore(
                                      Unwrap(rule.flags.game_version)))
                      ELSE @,
               !.changes_made = @ \/ known,
               !.warned = RoomWarns(rule.flags)]
    /\ UNCHANGED <<hax, lock, hook>>

\* Lines 184-187: if strip_passwords { strip_password; changes_made = true }.
RulePassword ==
    /\ rule.stage = "password"
    /\ rule' = [rule EXCEPT
            !.stage = NextStage("password"),
            !.last = "password",
            !.before = rule.cp,
            !.cp = IF rule.flags.strip_passwords THEN strip_password(@)
                   ELSE @,
            !.changes_made = @ \/ rule.flags.strip_passwords]
    /\ UNCHANGED <<hax, lock, hook>>

\* The room as one pass left it is given to the loop body again, under the
\* same flags.
RuleReapply ==
    /\ rule.stage \in {"into_map", "skipped"}
    /\ rule.pass < MaxPasses
    /\ rule' = StartRule(rule.cp, rule.flags, rule.pass + 1)
    /\ UNCHANGED <<hax, lock, hook>>


\* ------------------------------------------------------------ the inputs
SeqUpTo(S, n) == UNION {[1..k -> S] : k \in 0..n}

Message(kind, code, return_code, params) ==
    [kind |-> kind, code |-> code, return_code |-> return_code,
     params |-> params]

NoParams == [wf |-> TRUE]

\* Sample strings.
V189 == <<"1", ".", "8", "9">>
V180 == <<"1", ".", "8", "0">>
V189_2 == V189 \o <<"_", "2">>
RoomName == <<"r">>

\* Sample rooms: the hashtable v of one entry of the listing.
RoomPlain ==
    [wf |-> TRUE,
     cp |-> [roomName |-> PString(RoomName), storeID |-> PString(BALYZE_WEB),
             password |-> PString(<<>>), gameVersion |-> PString(V189)]]
RoomAll ==
    [wf |-> TRUE,
     cp |-> [roomName |-> PString(RoomName),
             storeID |-> PString(BALYZE_MOBILE),
             password |-> PString(<<"p", "w">>),
             gameVersion |-> PString(V180)]]
RoomNewFps ==
    [wf |-> TRUE,
     cp |-> [roomName |-> PString(RoomName),
             storeID |-> PString(BALYZE_MOBILE),
             password |-> PString(<<"p", "w">>),
             gameVersion |-> PString(V180),
             gameversion |-> PString(NEWFPS \o <<"1">>)]]
RoomBad == [wf |-> FALSE, cp |-> [roomName |-> PString(RoomName)]]

Entry(key, value) == [key |-> key, value |-> value]

\* A listing is a map: its keys differ.  The i-th entry is keyed by the game
\* name "g<i>", or by the integer i.
Digits == <<"1", "2", "3", "4">>
GameName(i) == <<"g", Digits[i]>>
Shape(string_key, value) == [string_key |-> string_key, value |-> value]
Shapes ==
    {Shape(TRUE, PHashtable(r)) :
        r \in {RoomPlain, RoomAll, RoomNewFps, RoomBad}}
    \cup {Shape(TRUE, PInteger(0)), Shape(FALSE, PHashtable(RoomAll))}
Listing(shapes) ==
    [i \in 1..Len(shapes) |->
        Entry(IF shapes[i].string_key THEN PString(GameName(i))
              ELSE PInteger(i),
              shapes[i].value)]
Listings(n) == {Listing(sh) : sh \in SeqUpTo(Shapes, n)}

AuthParams ==
    {[app_version |-> None, user_id |-> None],
     [app_version |-> Some(PString(V189_2)), user_id |-> Some(PString(<<"u">>))],
     [app_version |-> Some(PString(V180)), user_id |-> None],
     [app_version |-> Some(PInteger(0)), user_id |-> Some(PString(<<"u">>))]}

ListMessages(games) ==
    {Message("EventData", code, 0, [wf |-> TRUE, games |-> g]) :
        code \in {"GAME_LIST", "GAME_LIST_UPDATE"}, g \in games}

LobbyMessages ==
    {Message("OperationRequest", "AUTHENTICATE", 0, q) : q \in AuthParams}
    \cup ListMessages(Listings(MaxRooms))
    \cup {Message("EventData", "GAME_LIST", 0, [wf |-> FALSE, games |-> <<>>]),
          Message("EventData", "APP_STATS", 0, NoParams),
          Message("OperationRequest", "JOIN_LOBBY", 0, NoParams),
          Message("OperationResponse", "AUTHENTICATE", 0, NoParams)}

\* Actor properties of a join-game response.
ActorA == [wf |-> TRUE, nickname |-> <<"a">>]
ActorB == [wf |-> TRUE, nickname |-> <<"b">>]
ActorBad == [wf |-> FALSE, nickname |-> <<"a">>]
ActorIds == {1, 2}
Pairs ==
    {Entry(PInteger(i), PHashtable(a)) :
        i \in ActorIds, a \in {ActorA, ActorB, ActorBad}}
    \cup {Entry(PString(<<"k">>), PHashtable(ActorA)),
          Entry(PInteger(1), PInteger(0))}

\* player_properties is a map: its keys differ.
DistinctKeys(pairs) ==
    \A i, j \in 1..Len(pairs) : i # j => pairs[i].key # pairs[j].key
ActorMaps(n) == {pp \in SeqUpTo(Pairs, n) : DistinctKeys(pp)}

JoinResponses(pairs) ==
    {Message("OperationResponse", "JOIN_GAME", 0,
             [wf |-> TRUE, actor_nr |-> n, player_properties |-> pp]) :
        n \in ActorIds, pp \in pairs}

RaiseEventParams ==
    {[wf |-> FALSE, event_code |-> "RPC", data |-> None],
     [wf |-> TRUE, event_code |-> "OTHER", data |-> None],
     [wf |-> TRUE, event_code |-> "RPC", data |-> None],
     [wf |-> TRUE, event_code |-> "RPC", data |-> Some(PInteger(0))],
     [wf |-> TRUE, event_code |-> "RPC",
      data |-> Some(PHashtable([wf |-> FALSE]))],
     [wf |-> TRUE, event_code |-> "RPC",
      data |-> Some(PHashtable([wf |-> TRUE]))]}

GameEvents ==
    {Message("EventData", "JOIN", 0, [player_properties |-> pp]) :
        pp \in {None, Some(PInteger(0)), Some(PHashtable(ActorA)),
                Some(PHashtable(ActorBad))}}
    \cup {Message("EventData", "INSTANTIATION", 0,
                  [wf |-> w, data_wf |-> d]) :
            w \in BOOLEAN, d \in BOOLEAN}
    \cup {Message("EventData", code, 0, [wf |-> w, serialized |-> d]) :
            code \in {"SEND_SERIALIZE", "SEND_SERIALIZE_RELIABLE"},
            w \in BOOLEAN, d \in BOOLEAN}
    \cup {Message("EventData", "RPC", 0, [wf |-> w, rpc_wf |-> d]) :
            w \in BOOLEAN, d \in BOOLEAN}
    \cup {Message("EventData", "LEAVE", 0, NoParams)}

GameMessages ==
    {Message("OperationRequest", "JOIN_GAME", 0, [wf |-> w]) : w \in BOOLEAN}
    \cup {Message("OperationRequest", "RAISE_EVENT", 0, q) :
            q \in RaiseEventParams}
    \cup {Message("OperationRequest", "LEAVE", 0, NoParams)}
    \cup JoinResponses(ActorMaps(MaxActors))
    \cup {Message("OperationResponse", "JOIN_GAME", 0,
                  [wf |-> FALSE, actor_nr |-> 1, player_properties |-> <<>>]),
          Message("OperationResponse", "JOIN_GAME", 1,
                  [wf |-> TRUE, actor_nr |-> 1, player_properties |->
                      <<Entry(PInteger(1), PHashtable(ActorA))>>]),
          Message("OperationResponse", "LEAVE", 0, NoParams),
          Message("InternalOperationRequest", "PING", 0, NoParams)}
    \cup GameEvents

\* Custom properties for the rule pass: each of the five keys the loop body
\* reads is absent, a string, or a value of another type.
Absent == None
RoomNames == {Absent, Some(PString(RoomName)), Some(PInteger(0))}
StoreIds ==
    {Absent, Some(PString(BALYZE_WEB)), Some(PString(BALYZE_MOBILE)),
     Some(PString(<<"X">>)), Some(PInteger(0))}
Passwords ==
    {Absent, Some(PString(<<>>)), Some(PString(<<"p", "w">>)),
     Some(PInteger(0))}
RoomVersions ==
    {Absent, Some(PString(V189)), Some(PString(V180)), Some(PInteger(0))}
LowerVersions ==
    {Absent, Some(PString(NEWFPS \o <<"1">>)), Some(PString(V189))}
Keys == {"roomName", "storeID", "password", "gameVersion", "gameversion"}
Props(o) == [k \in {j \in Keys : IsSome(o[j])} |-> Unwrap(o[k])]
RuleRooms ==
    {Props([roomName |-> a, storeID |-> b, password |-> c,
            gameVersion |-> d, gameversion |-> e]) :
        a \in RoomNames, b \in StoreIds, c \in Passwords,
        d \in RoomVersions, e \in LowerVersions}

\* hax.game_version: never set, or the app version of an authenticate request.
LocalVersions == {None, Some(V189_2), Some(V180)}


\* Bytes the codec cannot decode.
Malformed ==
    [canonical |-> FALSE,
     payload |-> Message("Malformed", "none", 0, NoParams)]

\* Frames that decode to the given messages, in an encoding other than the
\* one the codec writes, and a frame that does not decode.
WireFrames(messages) ==
    {[canonical |-> FALSE, payload |-> m] : m \in messages} \cup {Malformed}

\* The same, and the encoding of each message as the codec writes it.
Frames(messages) ==
    WireFrames(messages) \cup {to_websocket_bytes(m) : m \in messages}

\* ------------------------------------------------------ specifications
\* HaxState as constructed: nothing known yet, the three toggles as
\* configured.
Init ==
    /\ \E sp \in BOOLEAN, sm \in BOOLEAN, so \in BOOLEAN :
          hax = [game_version |-> None, user_id |-> None,
                 player_id |-> None, players |-> <<>>,
                 strip_passwords |-> sp, show_mobile_games |-> sm,
                 show_other_versions |-> so]
    /\ lock = "free"
    /\ hook = [p \in Conn |-> Idle]
    /\ rule = NoRule

LobbySteps(p) ==
    \/ LobbyAuthLock(p)
    \/ LobbyAuthWrite(p)
    \/ LobbySnapLock(p)
    \/ LobbySnapshot(p)
    \/ LobbyListFromMap(p)
    \/ LobbyRoom(p)
    \/ LobbyFinish(p)
    \/ LobbyOther(p)
    \/ HookApply(p)
    \/ HookReturn(p)

GameSteps(p) ==
    \/ GameObserve(p)
    \/ GameJoinFromMap(p)
    \/ GameJoinLock(p)
    \/ GameSetPlayerId(p)
    \/ GameActorNext(p)
    \/ GamePlayerFromMap(p)
    \/ GameLogActor(p)
    \/ GameInsert(p)
    \/ GameJoinDone(p)
    \/ HookApply(p)
    \/ HookReturn(p)

\* The lobby connection alone, over every listing up to MaxRooms entries.
LobbyReceive ==
    \E bytes \in WireFrames(LobbyMessages), d \in Direction :
        HookEntry("LobbyServer", bytes, d)
NextLobby == LobbyReceive \/ LobbySteps("LobbyServer")
SpecLobby == Init /\ [][NextLobby]_vars

\* The game connection alone, over every join response up to MaxActors
\* actor entries.  The toggles, which match_packet_game never reads, are off.
InitGame ==
    /\ Init
    /\ ~hax.strip_passwords
    /\ ~hax.show_mobile_games
    /\ ~hax.show_other_versions
GameReceive ==
    \E bytes \in Frames(GameMessages), d \in Direction :
        HookEntry("GameServer", bytes, d)
NextGame == GameReceive \/ GameSteps("GameServer")
SpecGame == InitGame /\ [][NextGame]_vars

\* Both connections at once, their hooks interleaved step by step, over a
\* few frames of each kind.
BothLobbyMessages ==
    {Message("OperationRequest", "AUTHENTICATE", 0,
             [app_version |-> Some(PString(V189_2)),
              user_id |-> Some(PString(<<"u">>))]),
     Message("EventData", "APP_STATS", 0, NoParams),
     Message("EventData", "GAME_LIST", 0,
             [wf |-> TRUE,
              games |-> Listing(<<Shape(TRUE, PHashtable(RoomAll))>>)]),
     Message("EventData", "GAME_LIST_UPDATE", 0,
             [wf |-> TRUE,
              games |-> Listing(<<Shape(TRUE, PHashtable(RoomBad))>>)])}
BothGameMessages ==
    {Message("OperationRequest", "RAISE_EVENT", 0,
             [wf |-> TRUE, event_code |-> "RPC", data |-> None]),
     Message("OperationRequest", "JOIN_GAME", 0, [wf |-> TRUE]),
     Message("OperationResponse", "JOIN_GAME", 1,
             [wf |-> TRUE, actor_nr |-> 2,
              player_properties |->
                 <<Entry(PInteger(2), PHashtable(ActorB))>>]),
     Message("OperationResponse", "JOIN_GAME", 0,
             [wf |-> TRUE, actor_nr |-> 1,
              player_properties |->
                 <<Entry(PInteger(1), PHashtable(ActorA)),
                   Entry(PInteger(2), PHashtable(ActorBad))>>]),
     Message("OperationResponse", "JOIN_GAME", 0,
             [wf |-> TRUE, actor_nr |-> 2,
              player_properties |->
                 <<Entry(PInteger(2), PHashtable(ActorB))>>])}
BothReceive(p) ==
    \E bytes \in WireFrames(IF p = "LobbyServer" THEN BothLobbyMessages
                             ELSE BothGameMessages),
       d \in Direction :
        HookEntry(p, bytes, d)
Next ==
    \E p \in Conn :
        \/ BothReceive(p)
        \/ LobbySteps(p)
        \/ GameSteps(p)
Spec == Init /\ [][Next]_vars


\* One room through the loop body, over every room of RuleRooms, every
\* toggle combination and every local version, up to MaxPasses times.
InitRules ==
    /\ \E sp \in BOOLEAN, sm \in BOOLEAN, so \in BOOLEAN,
          gv \in LocalVersions :
          hax = [game_version |-> gv, user_id |-> None,
                 player_id |-> None, players |-> <<>>,
                 strip_passwords |-> sp, show_mobile_games |-> sm,
                 show_other_versions |-> so]
    /\ lock = "free"
    /\ hook = [p \in Conn |-> Idle]
    /\ \E cp \in RuleRooms : rule = StartRule(cp, Snapshot(hax), 1)
NextRules ==
    \/ RuleExempt
    \/ RuleMobile
    \/ RuleVersion
    \/ RulePassword
    \/ RuleReapply
SpecRules == InitRules /\ [][NextRules]_vars

\* Both connections under fair scheduling.  Each connection's task keeps
\* running: a step of its hook that stays possible is taken (the hook is
\* synchronous straight-line code).  The mutex hands the lock over: a hook
\* blocked in block_on(hax.lock()) that can take the lock again and again
\* does take it.  Frames arrive as they will, each in the direction its kind
\* travels: requests from the client, responses and events from the server.
DirectionOf(message) ==
    IF message.kind = "OperationRequest" THEN "ClientToServer"
    ELSE "ServerToClient"
FairReceive(p) ==
    \E bytes \in WireFrames(IF p = "LobbyServer" THEN BothLobbyMessages
                             ELSE BothGameMessages) :
        HookEntry(p, bytes, DirectionOf(bytes.payload))
NextFair ==
    \E p \in Conn :
        \/ FairReceive(p)
        \/ LobbySteps(p)
        \/ GameSteps(p)
LockSteps(p) ==
    \/ LobbyAuthLock(p)
    \/ LobbySnapLock(p)
    \/ GameJoinLock(p)
Fairness ==
    \A p \in Conn :
        /\ WF_vars(LobbySteps(p) \/ GameSteps(p))
        /\ SF_vars(LockSteps(p))
SpecFair == Init /\ [][NextFair]_vars /\ Fairness

\* ------------------------------------------------------------- properties
Done(p) == hook[p].pc = "done"
Frame(p) == Unwrap(hook[p].frame)
\* The buffer holds the bytes the hook was called with.
Untouched(p) == hook[p].data = hook[p].frame
\* websocket_hook returned Ok(true): forward what the buffer holds.
Forwarded(p) == hook[p].result = "Ok_true"
ActionKind(p) == Unwrap(hook[p].action).kind

\* C1: for every frame whose bytes the codec cannot decode, on either channel
\* and in either direction, websocket_hook leaves the buffer untouched and
\* its outcome is forward: not drop, not an error returned to the caller.
C1_UndecodableIsForwarded ==
    \A p \in Conn :
        (Done(p) /\ ~IsSome(from_websocket_bytes(Frame(p))))
            => (Untouched(p) /\ Forwarded(p))


IsListing(message) ==
    /\ message.kind = "EventData"
    /\ message.code \in {"GAME_LIST", "GAME_LIST_UPDATE"}

\* The event's parameters are a room listing: RoomInfoList::from_map takes
\* them and RoomInfo::from_map takes every (String, Hashtable) entry.
DecodesAsListing(message) ==
    /\ message.params.wf
    /\ \A i \in 1..Len(message.params.games) :
          LET e == message.params.games[i]
          IN  (e.key.t = "String" /\ e.value.t = "Hashtable") => e.value.h.wf

AllTogglesOff(flags) ==
    /\ ~flags.strip_passwords
    /\ ~flags.show_mobile
    /\ ~flags.show_all_versions

\* The lobby hook has passed the loop over the rooms of a listing.
ListingProcessed(p) ==
    /\ p = "LobbyServer"
    /\ hook[p].pc \in {"apply", "done"}
    /\ IsSome(hook[p].msg)
    /\ IsListing(Msg(p))
    /\ IsSome(hook[p].action)

\* C2: for every room listing (GAME_LIST or GAME_LIST_UPDATE on the lobby
\* channel) processed under a snapshot with strip_passwords, show_mobile_games
\* and show_other_versions all false, match_packet_lobby returns DoNothing,
\* and websocket_hook returns forward with the buffer byte-identical to its
\* input.
C2_TogglesOffUnchanged ==
    \A p \in Conn :
        /\ (ListingProcessed(p) /\ AllTogglesOff(Unwrap(hook[p].flags)))
              => (ActionKind(p) = "DoNothing" /\ Untouched(p))
        /\ (/\ Done(p)
            /\ p = "LobbyServer"
            /\ IsSome(hook[p].msg)
            /\ IsListing(Msg(p))
            /\ DecodesAsListing(Msg(p))
            /\ AllTogglesOff(Unwrap(hook[p].flags)))
              => (/\ IsSome(hook[p].action)
                  /\ ActionKind(p) = "DoNothing"
                  /\ Untouched(p)
                  /\ Forwarded(p))

\* A listing of two rooms has been processed with every toggle off and the
\* hook has returned.
C2_Witness ==
    /\ ListingProcessed("LobbyServer")
    /\ Done("LobbyServer")
    /\ AllTogglesOff(Unwrap(hook["LobbyServer"].flags))
    /\ Len(Msg("LobbyServer").params.games) = 2
    /\ Msg("LobbyServer").params.games[1].value = PHashtable(RoomAll)
    /\ Forwarded("LobbyServer")

\* C3: match_packet_lobby returns Change only when at least one room of the
\* listing differs from its input; with toggles on and no room altered it
\* returns DoNothing.
C3_ChangeOnlyIfAltered ==
    \A p \in Conn :
        (ListingProcessed(p) /\ ActionKind(p) = "Change")
            => Unwrap(Unwrap(hook[p].action).msg) # Msg(p)

\* An entry (String, Hashtable) that RoomInfo::from_map takes and whose
\* custom property `gameversion` is a string starting with "newfps-".
ExemptEntry(e) ==
    /\ e.key.t = "String"
    /\ e.value.t = "Hashtable"
    /\ e.value.h.wf
    /\ "gameversion" \in DOMAIN e.value.h.cp
    /\ e.value.h.cp["gameversion"].t = "String"
    /\ Len(e.value.h.cp["gameversion"].s) >= 7
    /\ SubSeq(e.value.h.cp["gameversion"].s, 1, 7)
          = <<"n", "e", "w", "f", "p", "s", "-">>

G == "GameServer"

\* The typed decodes of the join-game response branch all succeed:
\* JoinGameResponseSuccess::from_map, and Player::from_map on every
\* (Integer, Hashtable) pair.
JoinDecodes(message) ==
    /\ message.params.wf
    /\ \A i \in 1..Len(message.params.player_properties) :
          LET e == message.params.player_properties[i]
          IN  IsActorEntry(e) => IsSome(Player_from_map(e.value.h))

\* Index of the last (Integer id, Hashtable) pair of pairs, 0 if none.
LastPairOf(pairs, id) ==
    LET at == {i \in 1..Len(pairs) :
                  IsActorEntry(pairs[i]) /\ pairs[i].key.n = id}
    IN  IF at = {} THEN 0 ELSE CHOOSE i \in at : \A j \in at : j <= i

\* The response's updates are all in HaxState: player_id is its actor number,
\* every actor id it names maps to the Player of its properties, every other
\* actor id is as it was when the hook was called.
JoinFullyApplied(state, before, message) ==
    LET pairs == message.params.player_properties
    IN  /\ state.player_id = Some(message.params.actor_nr)
        /\ \A id \in ActorIds :
              LET i == LastPairOf(pairs, id)
              IN  IF i = 0
                  THEN /\ id \in DOMAIN state.players
                            <=> id \in DOMAIN before.players
                       /\ id \in DOMAIN state.players
                            => state.players[id] = before.players[id]
                  ELSE /\ id \in DOMAIN state.players
                       /\ Some(state.players[id])
                            = Player_from_map(pairs[i].value.h)

\* None of the response's updates is in HaxState.
JoinNotApplied(state, before) ==
    /\ state.player_id = before.player_id
    /\ state.players = before.players

\* C5: the Session State updates of one frame are all-or-nothing: when the
\* handling of a successful join-game response fails part-way, neither
\* player_id nor any players entry of that frame is in HaxState once the hook
\* has returned; otherwise all of them are.
C5_JoinAllOrNothing ==
    (Done(G) /\ IsSome(hook[G].msg) /\ IsJoinSuccess(Msg(G)))
        => IF hook[G].result = "Err"
           THEN JoinNotApplied(hax, Unwrap(hook[G].entry))
           ELSE JoinFullyApplied(hax, Unwrap(hook[G].entry), Msg(G))

\* What the step at each position of the hook does: a read or write of
\* fields in memory, a codec conversion, or a log record.
StepKind(pc) ==
    CASE pc = "g_from_map" -> "decode"
      [] pc = "g_log" -> "log"
      [] pc \in {"l_list", "match"} -> "decode"
      [] pc = "apply" -> "encode"
      [] OTHER -> "memory"

\* C6: while a hook invocation holds the HaxState lock its steps are reads
\* and writes of fields in memory only: no codec conversion and no log record
\* between the lock's acquisition and its release, on any branch.
C6_LockCoversMemoryOnly ==
    \A p \in Conn : lock = p => StepKind(hook[p].pc) = "memory"

\* C7: on the game channel, when a typed decode inside a branch fails or an
\* expected field is absent, the hook's outcome is still forward with the
\* original bytes: the error does not reach the caller.
C7_GameDecodeFailureForwarded ==
    (/\ Done(G)
     /\ IsSome(hook[G].msg)
     /\ \/ ObserveFails(Msg(G))
        \/ IsJoinSuccess(Msg(G)) /\ ~JoinDecodes(Msg(G)))
        => (Untouched(G) /\ Forwarded(G))

\* C8: for every game-channel frame, whatever its direction, kind and code,
\* match_packet_game never yields Change or Drop, and the buffer of
\* websocket_hook stays byte-identical to its input.
C8_GameNeverMutates ==
    hook[G].pc # "idle"
        => /\ Untouched(G)
           /\ IsSome(hook[G].action) => ActionKind(G) = "DoNothing"
           /\ hook[G].result # "Ok_false"

\* The game hook has returned forward for a server-to-client RPC event that
\* reached it in an encoding other than the codec's own.
C8_Witness ==
    /\ Done(G)
    /\ Forwarded(G)
    /\ Msg(G).kind = "EventData"
    /\ Msg(G).code = "RPC"
    /\ ~Frame(G).canonical
    /\ hook[G].direction = Some("ServerToClient")

\* C9: when match_packet_lobby returned a rewritten message, the hook
\* forwards: with the re-encoded bytes, or, when re-encoding fails, with the
\* original bytes still in the buffer; it neither drops nor returns an error.
C9_EncodeFailureForwarded ==
    \A p \in Conn :
        (Done(p) /\ IsSome(hook[p].action) /\ ActionKind(p) = "Change")
            => /\ Forwarded(p)
               /\ \/ Untouched(p)
                  \/ hook[p].data = Some(to_websocket_bytes(
                                        Unwrap(Unwrap(hook[p].action).msg)))

\* C10: a join-game response with return code 0 whose typed decodes succeed
\* sets player_id to its actor number and inserts or overwrites one players
\* entry per (Integer actor id, Hashtable) pair; entries of actor ids the
\* response does not name keep their value.
C10_JoinMergesPlayers ==
    (/\ Done(G)
     /\ IsSome(hook[G].msg)
     /\ IsJoinSuccess(Msg(G))
     /\ JoinDecodes(Msg(G)))
        => /\ Forwarded(G)
           /\ JoinFullyApplied(hax, Unwrap(hook[G].entry), Msg(G))

\* After a response that set actors 1 and 2, a response naming actor 2 alone
\* has been handled: actor 1 is as before, actor 2 is overwritten.
C10_Witness ==
    /\ Done(G)
    /\ Forwarded(G)
    /\ IsJoinSuccess(Msg(G))
    /\ Msg(G).params.player_properties
          = <<Entry(PInteger(2), PHashtable(ActorB))>>
    /\ DOMAIN Unwrap(hook[G].entry).players = {1, 2}
    /\ Unwrap(hook[G].entry).players[2] = [nickname |-> <<"a">>]
    /\ DOMAIN hax.players = {1, 2}
    /\ hax.players[1] = [nickname |-> <<"a">>]
    /\ hax.players[2] = [nickname |-> <<"b">>]
    /\ hax.player_id = Some(Msg(G).params.actor_nr)

\* ---- the session state across frames
L == "LobbyServer"

\* C11: across any sequence of frames on either channel (failed join
\* responses, error returns and lobby frames included) no step of any hook
\* takes an actor id out of players: an id once present stays present.
C11_PlayersNeverShrink ==
    [][DOMAIN hax.players \subseteq DOMAIN hax'.players]_vars

\* With actors 1 and 2 known, a join response has failed part-way and
\* returned Err while a lobby frame has been handled to its end; both actors
\* are still there.
C11_Witness ==
    /\ Done(G)
    /\ hook[G].result = "Err"
    /\ IsSome(hook[G].msg)
    /\ IsJoinSuccess(Msg(G))
    /\ DOMAIN Unwrap(hook[G].entry).players = {1, 2}
    /\ DOMAIN hax.players = {1, 2}
    /\ Done(L)
    /\ Forwarded(L)
    /\ IsSome(hook[L].msg)
    /\ IsListing(Msg(L))

\* C12: player_id starts unset, and a step changes it only as part of the
\* game hook's handling of an OperationResponse JOIN_GAME with return code 0
\* that JoinGameResponseSuccess::from_map takes, and then to that response's
\* actor number; no step of the lobby hook, and no step handling a join
\* request or a join response with another return code, changes it.
C12_PlayerIdOnlyFromJoin ==
    /\ hax.player_id = None
    /\ [][hax'.player_id # hax.player_id
            => /\ hook'[G] # hook[G]
               /\ hook'[L] = hook[L]
               /\ IsSome(hook[G].msg)
               /\ Msg(G).kind = "OperationResponse"
               /\ Msg(G).code = "JOIN_GAME"
               /\ Msg(G).return_code = 0
               /\ Msg(G).params.wf
               /\ hax'.player_id = Some(Msg(G).params.actor_nr)]_vars

\* With player_id set to 1 by an earlier response, a join response with
\* return code 1 naming actor 2 has been handled on the game channel and an
\* authenticate request on the lobby channel; player_id is still 1.
C12_Witness ==
    /\ Done(G)
    /\ IsSome(hook[G].msg)
    /\ Msg(G).kind = "OperationResponse"
    /\ Msg(G).code = "JOIN_GAME"
    /\ Msg(G).return_code = 1
    /\ Msg(G).params.actor_nr = 2
    /\ Unwrap(hook[G].entry).player_id = Some(1)
    /\ hax.player_id = Some(1)
    /\ Done(L)
    /\ IsSome(hook[L].msg)
    /\ Msg(L).kind = "OperationRequest"
    /\ Msg(L).code = "AUTHENTICATE"

SameToggles(a, b) ==
    /\ a.strip_passwords = b.strip_passwords
    /\ a.show_mobile_games = b.show_mobile_games
    /\ a.show_other_versions = b.show_other_versions

\* C13 as stated: no step of the hook of the lobby channel changes a Session
\* State field (game_version, user_id, player_id, players).
C13_LobbyNeverMutates ==
    [][hook'[L] # hook[L]
         => /\ hax'.game_version = hax.game_version
            /\ hax'.user_id = hax.user_id
            /\ hax'.player_id = hax.player_id
            /\ hax'.players = hax.players]_vars

\* C13, amended: the lobby hook never changes player_id or players, and the
\* game hook never changes game_version or user_id.  The one lobby frame that
\* changes Session State is an OperationRequest AUTHENTICATE: it sets
\* game_version to its app-version parameter and user_id to its user-id
\* parameter, each only when the parameter is a string.
C13_LobbyWritesAuthOnly ==
    [][/\ hook'[L] # hook[L]
            => /\ hax'.player_id = hax.player_id
               /\ hax'.players = hax.players
               /\ SameToggles(hax', hax)
       /\ (hook'[L] # hook[L] /\ hax' # hax)
            => /\ Msg(L).kind = "OperationRequest"
               /\ Msg(L).code = "AUTHENTICATE"
               /\ LET q == Msg(L).params
                  IN  /\ hax'.game_version =
                            IF q.app_version # None
                               /\ q.app_version[1].t = "String"
                            THEN <<q.app_version[1].s>>
                            ELSE hax.game_version
                      /\ hax'.user_id =
                            IF q.user_id # None /\ q.user_id[1].t = "String"
                            THEN <<q.user_id[1].s>>
                            ELSE hax.user_id
       /\ hook'[G] # hook[G]
            => /\ hax'.game_version = hax.game_version
               /\ hax'.user_id = hax.user_id
               /\ SameToggles(hax', hax)]_vars

\* The lobby hook has handled an authenticate request and recorded its
\* version and user id in a session whose player_id and players the game
\* hook had set before.
C13_Witness ==
    /\ Done(L)
    /\ Forwarded(L)
    /\ IsSome(hook[L].msg)
    /\ Msg(L).kind = "OperationRequest"
    /\ Msg(L).code = "AUTHENTICATE"
    /\ hax.game_version = Some(V189_2)
    /\ hax.user_id = Some(<<"u">>)
    /\ IsSome(hax.player_id)
    /\ DOMAIN hax.players = {1, 2}

\* ---- the room rules
\* The room as it stood before the rule that ran last, and as it stands.
Before == rule.before
After == rule.cp
StringAt(cp, key) == key \in DOMAIN cp /\ cp[key].t = "String"

\* After differs from Before at most at the two keys, and where Before has
\* a string name, the name is prefix followed by the name of Before.
OnlyRenamed(key, prefix) ==
    /\ DOMAIN After = DOMAIN Before
    /\ \A k \in DOMAIN Before \ {"roomName", key} : After[k] = Before[k]
    /\ "roomName" \in DOMAIN Before
          => After["roomName"] =
                IF Before["roomName"].t = "String"
                THEN PString(prefix \o Before["roomName"].s)
                ELSE Before["roomName"]

\* C14: with strip_passwords on, strip_password turns a non-exempt room whose
\* `password` is a non-empty string into the room with password "" and
\* roomName "[p] " followed by the name as it stood before this rule; a room
\* whose password is empty, absent or not a string is left as it was.
C14_StripPassword ==
    (rule.last = "password" /\ rule.flags.strip_passwords)
        => IF StringAt(Before, "password") /\ Before["password"].s # <<>>
           THEN /\ After["password"] = PString(<<>>)
                /\ OnlyRenamed("password", <<"[", "p", "]", " ">>)
           ELSE After = Before

\* strip_password has run on a room with password "pw" whose name the two
\* rules before it had already prefixed.
C14_Witness ==
    /\ rule.last = "password"
    /\ rule.flags.strip_passwords
    /\ StringAt(Before, "password")
    /\ Before["password"].s = <<"p", "w">>
    /\ StringAt(Before, "roomName")
    /\ Before["roomName"].s = Bracket(V180) \o PrefixM \o RoomName
    /\ After["roomName"].s = PrefixP \o Bracket(V180) \o PrefixM \o RoomName
    /\ After["password"].s = <<>>

\* C15: with show_mobile_games on, force_games_web turns a non-exempt room
\* with a string storeID into the room with storeID "BALYZE_WEB" and roomName
\* gaining no prefix if storeID was "BALYZE_WEB", "[M] " if it was
\* "BALYZE_MOBILE", "[<storeID>] " otherwise; a room without a string storeID
\* is left as it was.
C15_PlatformMasking ==
    (rule.last = "mobile" /\ rule.flags.show_mobile)
        => IF StringAt(Before, "storeID")
           THEN LET sid == Before["storeID"].s
                IN  /\ After["storeID"] = PString(BALYZE_WEB)
                    /\ OnlyRenamed("storeID",
                          IF sid = BALYZE_WEB THEN <<>>
                          ELSE IF sid = BALYZE_MOBILE
                               THEN <<"[", "M", "]", " ">>
                               ELSE <<"[">> \o sid \o <<"]", " ">>)
           ELSE After = Before

\* force_games_web has run on a room named "r" of store "X".
C15_Witness ==
    /\ rule.last = "mobile"
    /\ rule.flags.show_mobile
    /\ StringAt(Before, "storeID")
    /\ Before["storeID"].s = <<"X">>
    /\ "roomName" \in DOMAIN Before
    /\ Before["roomName"] = PString(RoomName)
    /\ After["roomName"] = PString(<<"[", "X", "]", " ", "r">>)
    /\ After["storeID"] = PString(BALYZE_WEB)

\* The part of version before its first "_", the whole of it if it has none.
LocalVersion(version) ==
    LET at == {i \in 1..Len(version) : version[i] = "_"}
    IN  IF at = {} THEN version
        ELSE SubSeq(version, 1, (CHOOSE i \in at : \A j \in at : i <= j) - 1)

\* C16: with show_other_versions on and game_version known, the local version
\* is the part of game_version before its first "_"; a non-exempt room whose
\* `gameVersion` is a string other than the local version gets gameVersion =
\* the local version and roomName "[<its version>] " followed by the name as
\* it stood; a room whose gameVersion is the local version, absent or not a
\* string is left as it was.
C16_VersionPinning ==
    (/\ rule.last = "version"
     /\ rule.flags.show_all_versions
     /\ rule.flags.game_version # None)
        => LET local == LocalVersion(rule.flags.game_version[1])
           IN  IF StringAt(Before, "gameVersion")
                  /\ Before["gameVersion"].s # local
               THEN /\ After["gameVersion"] = PString(local)
                    /\ OnlyRenamed("gameVersion",
                          <<"[">> \o Before["gameVersion"].s \o <<"]", " ">>)
               ELSE After = Before

\* With game_version "1.89_2", force_games_current_ver has run on a room of
\* version "1.80" whose name force_games_web had prefixed.
C16_Witness ==
    /\ rule.last = "version"
    /\ rule.flags.show_all_versions
    /\ rule.flags.game_version = Some(V189_2)
    /\ StringAt(Before, "gameVersion")
    /\ Before["gameVersion"].s = V180
    /\ "roomName" \in DOMAIN Before
    /\ Before["roomName"] = PString(PrefixM \o RoomName)
    /\ After["gameVersion"] = PString(V189)
    /\ After["roomName"] = PString(Bracket(V180) \o PrefixM \o RoomName)

\* An entry of a listing the loop body works on: (String, Hashtable), not
\* exempt.
WorkedEntry(e) ==
    /\ e.key.t = "String"
    /\ e.value.t = "Hashtable"
    /\ ~ExemptEntry(e)

\* C17: a listing processed with show_other_versions on and no game version
\* recorded: version pinning alters no room (gameVersion and name are as the
\* other two rules alone leave them), one warning is logged per room worked
\* on, force_games_web and strip_password are applied where their toggles are
\* on, and every room of the listing is processed, those after a warned room
\* included.
C17_UnknownVersionWarns ==
    LET h == hook[L]
    IN  (/\ ListingProcessed(L)
         /\ Unwrap(h.flags).show_all_versions
         /\ Unwrap(h.flags).game_version = None)
        => LET f == Unwrap(h.flags)
               in == Msg(L).params.games
               worked == {i \in 1..Len(in) : WorkedEntry(in[i])}
           IN  /\ Len(h.games) = Len(in)
               /\ h.idx = Len(in) + 1
               /\ h.warnings = Cardinality(worked)
               /\ \A i \in 1..Len(in) :
                     IF i \in worked
                     THEN LET cp == in[i].value.h.cp
                              c1 == IF f.show_mobile
                                    THEN force_games_web(cp) ELSE cp
                              c2 == IF f.strip_passwords
                                    THEN strip_password(c1) ELSE c1
                              out == h.games[i].value.h.cp
                          IN  /\ h.games[i].key = in[i].key
                              /\ out = c2
                              /\ "gameVersion" \in DOMAIN cp
                                    => out["gameVersion"] = cp["gameVersion"]
                     ELSE h.games[i] = in[i]

\* With no version recorded and all three toggles on, a listing of two rooms
\* has been processed: two warnings, the first room masked and stripped with
\* its version "1.80" in place, the second processed after it.
C17_Witness ==
    LET h == hook[L]
    IN  /\ ListingProcessed(L)
        /\ Done(L)
        /\ Unwrap(h.flags).show_all_versions
        /\ Unwrap(h.flags).show_mobile
        /\ Unwrap(h.flags).strip_passwords
        /\ Unwrap(h.flags).game_version = None
        /\ Len(Msg(L).params.games) = 2
        /\ Msg(L).params.games[1].value = PHashtable(RoomAll)
        /\ Msg(L).params.games[2].value = PHashtable(RoomAll)
        /\ h.warnings = 2
        /\ h.games[1].value.h.cp["roomName"]
              = PString(PrefixP \o PrefixM \o RoomName)
        /\ h.games[1].value.h.cp["gameVersion"] = PString(V180)
        /\ h.games[2].value.h.cp["password"] = PString(<<>>)

\* The prefix each rule puts before the name, read off the room as the pass
\* received it.
MobilePrefix(cp, flags) ==
    IF flags.show_mobile /\ StringAt(cp, "storeID")
    THEN LET sid == cp["storeID"].s
         IN  IF sid = BALYZE_WEB THEN <<>>
             ELSE IF sid = BALYZE_MOBILE THEN <<"[", "M", "]", " ">>
             ELSE <<"[">> \o sid \o <<"]", " ">>
    ELSE <<>>
VersionPrefix(cp, flags) ==
    IF /\ flags.show_all_versions
       /\ flags.game_version # None
       /\ StringAt(cp, "gameVersion")
       /\ cp["gameVersion"].s # LocalVersion(flags.game_version[1])
    THEN <<"[">> \o cp["gameVersion"].s \o <<"]", " ">>
    ELSE <<>>
PasswordPrefix(cp, flags) ==
    IF /\ flags.strip_passwords
       /\ StringAt(cp, "password")
       /\ cp["password"].s # <<>>
    THEN <<"[", "p", "]", " ">>
    ELSE <<>>

\* C18: the blocks of the loop body run in the order force_games_web,
\* force_games_current_ver, strip_password, each putting its prefix before
\* the name the one before it left: at the end of a pass the name is the
\* password prefix, then the version prefix, then the platform prefix, then
\* the name received, and the loop of match_packet_lobby yields the same.
C18_PrefixOrder ==
    /\ [](rule.stage = "into_map"
            => /\ rule.last = "password"
               /\ StringAt(rule.input, "roomName")
                    => rule.cp["roomName"] =
                          PString(PasswordPrefix(rule.input, rule.flags)
                                  \o VersionPrefix(rule.input, rule.flags)
                                  \o MobilePrefix(rule.input, rule.flags)
                                  \o rule.input["roomName"].s)
               /\ rule.cp = RoomRules(rule.input, rule.flags))
    /\ [][/\ rule'.last = "mobile" => rule.last = "none"
          /\ rule'.last = "version" => rule.last = "mobile"
          /\ rule'.last = "password" => rule.last = "version"]_rule

\* A room altered by all three rules: mobile store, version "1.80" against
\* local "1.89", password "pw".
C18_Witness ==
    /\ rule.stage = "into_map"
    /\ rule.pass = 1
    /\ rule.flags.game_version = Some(V189_2)
    /\ StringAt(rule.input, "roomName")
    /\ rule.input["roomName"].s = RoomName
    /\ rule.cp["roomName"].s =
          <<"[", "p", "]", " ", "[", "1", ".", "8", "0", "]", " ",
            "[", "M", "]", " ", "r">>

\* C19: for every room and every flags snapshot, the rules applied to the
\* room a first application produced yield that room again: no second
\* prefix, no property changed, and an exempt room stays exempt.
C19_Idempotent ==
    (rule.pass >= 2 /\ rule.stage # "none") => rule.cp = rule.input

\* The second pass over a room the first pass had altered by all three rules
\* has ended.
C19_Witness ==
    /\ rule.pass = 2
    /\ rule.stage = "into_map"
    /\ rule.flags.game_version = Some(V189_2)
    /\ StringAt(rule.input, "roomName")
    /\ rule.input["roomName"].s =
          PrefixP \o Bracket(V180) \o PrefixM \o RoomName
    /\ rule.cp = rule.input

====
